---- MODULE Spec2Model ----
(***************************************************************************)
(* A model of purpleair.channel.Channel: construction of the record from   *)
(* a raw snapshot (setup), its dictionary representations, the ThingSpeak  *)
(* URL builder and the historical fetch operations.                        *)
(*                                                                         *)
(* Python values are tagged tuples so that values of different Python      *)
(* types can be compared: None is <<>>, a str is <<"str", s>>, an int is    *)
(* <<"int", n>>, a float is <<"float", m>> with m in thousandths, a bool is *)
(* <<"bool", b>>, a dict is <<"dict", f>>, a list is <<"list", s>>.         *)
(***************************************************************************)
EXTENDS Integers, Sequences, FiniteSets, TLC

VARIABLES
    channel_data,     \* the raw snapshot given to Channel(...)
    self,             \* the attributes of the Channel object
    pc,               \* where the caller is: new, ready, loop, between, reading, done, raised
    exc,              \* the exception that ended construction or the operation
    returned,         \* the value the operation returned
    op,               \* the method the caller invoked
    thingspeak_field, \* the feed of the retrieval in progress
    thingspeak_args,  \* the options mapping the caller passed
    first_date,       \* get_historical_between: first_date
    last_date,        \* get_historical_between: last_date
    weeks_arg,        \* get_all_historical: weeks_to_get as passed
    start_arg,        \* get_all_historical: start_date as passed
    start_date,       \* get_historical: the local start_date
    to_week,          \* get_historical: the running cursor
    weeks_to_get,     \* get_historical: the local weeks_to_get
    range_left,       \* get_historical: iterations left of the for loop
    weekly_data,      \* get_historical: the tables read so far
    primary,          \* get_all_historical*: the primary table
    secondary,        \* get_all_historical*: the secondary table
    inflight,         \* the URL the transport is reading, None when idle
    requests,         \* every URL handed to the transport, in order
    responses         \* how the transport answered each request: ok or error

objVars == <<channel_data, self>>
callVars == <<op, thingspeak_field, thingspeak_args, first_date, last_date,
              weeks_arg, start_arg>>
loopVars == <<start_date, to_week, weeks_to_get, range_left, weekly_data>>
feedVars == <<primary, secondary>>
netVars == <<inflight, requests, responses>>

vars == <<channel_data, self, pc, exc, returned, op, thingspeak_field,
          thingspeak_args, first_date, last_date, weeks_arg, start_arg,
          start_date, to_week, weeks_to_get, range_left, weekly_data,
          primary, secondary, inflight, requests, responses>>

----------------------------------------------------------------------------
(* Python values *)

None == <<>>
StrV(s) == <<"str", s>>
IntV(n) == <<"int", n>>
FloatV(m) == <<"float", m>>
BoolV(b) == <<"bool", b>>
DictV(f) == <<"dict", f>>
ListV(s) == <<"list", s>>
\* A datetime: seconds since the epoch and milliseconds within the second.
Datetime(secs) == <<"datetime", secs, 0>>
DatetimeMs(ms) == <<"datetime", ms \div 1000, ms % 1000>>

EmptyMap == [k \in {} |-> None]

Tag(v) == IF v = None THEN "None" ELSE v[1]

\* The outcome of an expression that may raise: ok with a value, or an
\* exception: its class name, followed by its message when it has one.
NoExc == <<>>
Ok(v) == [ok |-> TRUE, value |-> v, exc |-> NoExc]
Raise(e) == [ok |-> FALSE, value |-> None, exc |-> <<e>>]
RaiseMsg(e, text, value) == [ok |-> FALSE, value |-> None, exc |-> <<e, text, value>>]

\* The class name of an exception, "none" when there is none.
ExcName(e) == IF e = NoExc THEN "none" ELSE e[1]

\* A lookup that falls back to the empty string.
GetOrEmpty(d, key) == IF key \in DOMAIN d THEN d[key] ELSE StrV("")

\* dict.get(key): the value, or None when the key is absent.
Get(d, key) == IF key \in DOMAIN d THEN d[key] ELSE None

\* Python truthiness of a value.
Truthy(v) ==
    CASE v = None -> FALSE
      [] Tag(v) = "dict" -> DOMAIN v[2] # {}
      [] Tag(v) = "list" -> Len(v[2]) > 0
      [] Tag(v) = "str" -> v[2] # ""
      [] Tag(v) \in {"int", "float"} -> v[2] # 0
      [] Tag(v) = "bool" -> v[2]
      [] OTHER -> TRUE

\* The decimal literals that occur as strings in the snapshots, with their
\* value in thousandths.
NumericLiterals ==
    [s \in {"72", "32", "40", "1010.5", "1.5", "0.0", "12"} |->
        CASE s = "72" -> 72000
          [] s = "32" -> 32000
          [] s = "40" -> 40000
          [] s = "1010.5" -> 1010500
          [] s = "1.5" -> 1500
          [] s = "0.0" -> 0
          [] s = "12" -> 12000]

\* float(v): TypeError for a value that is neither a number nor a string,
\* ValueError for a string that is not a decimal literal.
PyFloat(v) ==
    CASE Tag(v) = "float" -> Ok(v)
      [] Tag(v) = "int" -> Ok(FloatV(v[2] * 1000))
      [] Tag(v) = "bool" -> Ok(FloatV(IF v[2] THEN 1000 ELSE 0))
      [] Tag(v) = "str" ->
            IF v[2] \in DOMAIN NumericLiterals
            THEN Ok(FloatV(NumericLiterals[v[2]]))
            ELSE Raise("ValueError")
      [] OTHER -> Raise("TypeError")

\* int(v): floats truncate, strings must be integer literals.
PyInt(v) ==
    CASE Tag(v) = "int" -> Ok(v)
      [] Tag(v) = "float" -> Ok(IntV(v[2] \div 1000))
      [] Tag(v) = "bool" -> Ok(IntV(IF v[2] THEN 1 ELSE 0))
      [] Tag(v) = "str" ->
            IF v[2] \in DOMAIN NumericLiterals /\ NumericLiterals[v[2]] % 1000 = 0
               /\ v[2] # "0.0"
            THEN Ok(IntV(NumericLiterals[v[2]] \div 1000))
            ELSE Raise("ValueError")
      [] OTHER -> Raise("TypeError")

----------------------------------------------------------------------------
(* The nested statistics payload *)

StatsKeys == {"v1", "v2", "v3", "v4", "v5", "v6", "lastModified", "timeSinceModified"}

StatsFull ==
    [k \in StatsKeys |->
        CASE k = "lastModified" -> IntV(1600000)
          [] k = "timeSinceModified" -> IntV(120000)
          [] k = "v1" -> FloatV(1100)
          [] k = "v2" -> FloatV(1200)
          [] k = "v3" -> FloatV(1300)
          [] k = "v4" -> FloatV(1400)
          [] k = "v5" -> FloatV(1500)
          [] k = "v6" -> FloatV(1600)]

StatsPartial == [k \in {"v1", "lastModified"} |-> StatsFull[k]]

\* json.loads(v): the texts used as `Stats` values and what they decode to.
\* A text that is not JSON raises JSONDecodeError, a non-string TypeError.
JsonLoads(v) ==
    CASE Tag(v) # "str" -> Raise("TypeError")
      [] v[2] = "{v1..v6,lastModified,timeSinceModified}" -> Ok(DictV(StatsFull))
      [] v[2] = "{v1,lastModified}" -> Ok(DictV(StatsPartial))
      [] v[2] = "{}" -> Ok(DictV(EmptyMap))
      [] v[2] = "[]" -> Ok(ListV(<<>>))
      [] OTHER -> Raise("JSONDecodeError")

----------------------------------------------------------------------------
(* Channel.safe_float and Channel.setup *)

safe_float(cd, key) ==
    LET result == Get(cd, key)
    IN  IF result # None
        THEN LET r == PyFloat(result) IN IF r.ok THEN r.value ELSE None
        ELSE result

\* current_temp_c = (current_temp_f - 32) * (5 / 9), in thousandths.
TempC(temp_f) ==
    IF temp_f # None THEN FloatV(((temp_f[2] - 32000) * 5) \div 9) ELSE None

SetupMeta(cd) ==
    [lat |-> safe_float(cd, "Lat"),
     lon |-> safe_float(cd, "Lon"),
     identifier |-> Get(cd, "ID"),
     parent |-> Get(cd, "ParentID"),
     type |-> IF Get(cd, "ParentID") = None THEN StrV("parent") ELSE StrV("child"),
     name |-> Get(cd, "Label"),
     location_type |-> Get(cd, "DEVICE_LOCATIONTYPE")]

SetupData(cd) ==
    [current_pm2_5 |-> safe_float(cd, "PM2_5Value"),
     current_temp_f |-> safe_float(cd, "temp_f"),
     current_temp_c |-> TempC(safe_float(cd, "temp_f")),
     current_humidity |-> safe_float(cd, "humidity"),
     current_pressure |-> safe_float(cd, "pressure"),
     current_p_0_3_um |-> safe_float(cd, "p_0_3_um"),
     current_p_0_5_um |-> safe_float(cd, "p_0_5_um"),
     current_p_1_0_um |-> safe_float(cd, "p_1_0_um"),
     current_p_2_5_um |-> safe_float(cd, "p_2_5_um"),
     current_p_5_0_um |-> safe_float(cd, "p_5_0_um"),
     current_p_10_0_um |-> safe_float(cd, "p_10_0_um"),
     current_pm1_0_cf_1 |-> safe_float(cd, "pm1_0_cf_1"),
     current_pm2_5_cf_1 |-> safe_float(cd, "pm2_5_cf_1"),
     current_pm10_0_cf_1 |-> safe_float(cd, "pm10_0_cf_1"),
     current_pm1_0_atm |-> safe_float(cd, "pm1_0_atm"),
     current_pm2_5_atm |-> safe_float(cd, "pm2_5_atm"),
     current_pm10_0_atm |-> safe_float(cd, "pm10_0_atm")]

\* `stats.get(key) if stats else None`: a truthy value that is not a dict has
\* no get and raises AttributeError.
StatsGetIfTruthy(stats, key) ==
    IF Truthy(stats)
    THEN IF Tag(stats) = "dict" THEN Ok(Get(stats[2], key)) ELSE Raise("AttributeError")
    ELSE Ok(None)

\* `stats.get(key) if stats is not None else None`
StatsGetIfNotNone(stats, key) ==
    IF stats # None
    THEN IF Tag(stats) = "dict" THEN Ok(Get(stats[2], key)) ELSE Raise("AttributeError")
    ELSE Ok(None)

\* The first exception of a sequence of outcomes, NoExc when all are ok.
RECURSIVE FirstExc(_)
FirstExc(rs) ==
    IF rs = <<>> THEN NoExc
    ELSE IF ~rs[1].ok THEN rs[1].exc ELSE FirstExc(Tail(rs))

\* The statistics section of setup. json.loads is not guarded: when it
\* raises, the exception leaves setup.
SetupStatistics(cd) ==
    LET loaded == IF "Stats" \in DOMAIN cd THEN JsonLoads(cd["Stats"]) ELSE Ok(None)
        stats == loaded.value
        v1 == StatsGetIfTruthy(stats, "v1")
        v2 == StatsGetIfTruthy(stats, "v2")
        v3 == StatsGetIfTruthy(stats, "v3")
        v4 == StatsGetIfTruthy(stats, "v4")
        v5 == StatsGetIfTruthy(stats, "v5")
        v6 == StatsGetIfTruthy(stats, "v6")
        last_mod == StatsGetIfNotNone(stats, "lastModified")
        as_int == IF last_mod.ok /\ last_mod.value # None
                  THEN PyInt(last_mod.value) ELSE Ok(None)
        last2 == StatsGetIfNotNone(stats, "timeSinceModified")
        e == IF ~loaded.ok THEN loaded.exc
             ELSE FirstExc(<<v1, v2, v3, v4, v5, v6, last_mod, as_int, last2>>)
    IN  IF e # NoExc THEN [ok |-> FALSE, value |-> None, exc |-> e]
        ELSE Ok([pm2_5stats |-> stats,
                 m10avg |-> v1.value,
                 m30avg |-> v2.value,
                 h1ravg |-> v3.value,
                 h6ravg |-> v4.value,
                 d1avg |-> v5.value,
                 w1avg |-> v6.value,
                 last_modified_stats |->
                    IF as_int.value # None THEN DatetimeMs(as_int.value[2]) ELSE None,
                 last2_modified |-> last2.value])

\* The assignments of the try block, in order: attribute and raw key.
IdAssignments ==
    << <<"tp_primary_channel", "THINGSPEAK_PRIMARY_ID">>,
       <<"tp_primary_key", "THINGSPEAK_PRIMARY_ID_READ_KEY">>,
       <<"tp_secondary_channel", "THINGSPEAK_SECONDARY_ID">>,
       <<"tp_secondary_key", "THINGSPEAK_SECONDARY_ID_READ_KEY">> >>

IdentityKeys == {IdAssignments[i][2] : i \in 1..Len(IdAssignments)}

IdAttrs ==
    {"tp_primary_channel", "tp_primary_key", "tp_secondary_channel",
     "tp_secondary_key", "thingspeak_primary", "thingspeak_secondary"}

\* thingspeak.Channel(id=..., api_key=...): an object, no network access.
ThingspeakChannel(id, api_key) == <<"thingspeak.Channel", id, api_key>>

\* The try block: the attributes assigned before the first KeyError, and
\* whether a KeyError was raised.
RECURSIVE TryIds(_, _, _)
TryIds(cd, i, attrs) ==
    IF i > Len(IdAssignments)
    THEN [raised |-> FALSE,
          attrs |-> attrs @@
             [a \in {"thingspeak_primary", "thingspeak_secondary"} |->
                IF a = "thingspeak_primary"
                THEN ThingspeakChannel(attrs["tp_primary_channel"], attrs["tp_primary_key"])
                ELSE ThingspeakChannel(attrs["tp_secondary_channel"], attrs["tp_secondary_key"])]]
    ELSE IF IdAssignments[i][2] \notin DOMAIN cd
         THEN [raised |-> TRUE, attrs |-> attrs]
         ELSE TryIds(cd, i + 1,
                     attrs @@ [a \in {IdAssignments[i][1]} |-> cd[IdAssignments[i][2]]])

\* A handler that only fills in what the try block did not reach.
ExceptKeyErrorKeepAssigned(attrs) ==
    [a \in IdAttrs |-> IF a \in DOMAIN attrs THEN attrs[a] ELSE None]

\* The except KeyError handler: all six attributes are reset.
ExceptKeyError(attrs) ==
    [a \in IdAttrs |-> None]

SetupThingSpeakIDs(cd) ==
    LET t == TryIds(cd, 1, EmptyMap)
    IN  IF t.raised THEN ExceptKeyError(t.attrs) ELSE t.attrs

\* `x == 1` in Python holds for 1, 1.0 and True.
EqualsOne(v) == v = IntV(1) \/ v = FloatV(1000) \/ v = BoolV(TRUE)

SetupDiagnostic(cd) ==
    LET last_seen == Get(cd, "LastSeen")
        as_int == IF last_seen # None THEN PyInt(last_seen) ELSE Ok(None)
    IN  IF ~as_int.ok THEN as_int
        ELSE Ok([last_seen |->
                    IF last_seen # None THEN Datetime(as_int.value[2]) ELSE last_seen,
                 model |-> Get(cd, "Type"),
                 adc |-> Get(cd, "Adc"),
                 rssi |-> Get(cd, "RSSI"),
                 hidden |-> BoolV(~(Get(cd, "Hidden") = StrV("false"))),
                 flagged |-> BoolV(EqualsOne(Get(cd, "Flag"))),
                 downgraded |-> BoolV(Get(cd, "A_H") = StrV("true")),
                 age |-> Get(cd, "AGE"),
                 brightness |-> Get(cd, "DEVICE_BRIGHTNESS"),
                 hardware |-> Get(cd, "DEVICE_HARDWAREDISCOVERED"),
                 version |-> Get(cd, "Version"),
                 last_update_check |-> Get(cd, "LastUpdateCheck"),
                 created |-> Get(cd, "Created"),
                 uptime |-> Get(cd, "Uptime"),
                 is_owner |-> BoolV(Truthy(Get(cd, "isOwner")))])

\* Channel.setup: the attributes of the constructed object, or the exception
\* that leaves __init__.
Setup(cd) ==
    LET stats == SetupStatistics(cd)
        diag == SetupDiagnostic(cd)
    IN  IF ~stats.ok THEN stats
        ELSE IF ~diag.ok THEN diag
        ELSE Ok(SetupMeta(cd) @@ SetupData(cd) @@ stats.value
                @@ SetupThingSpeakIDs(cd) @@ diag.value)

----------------------------------------------------------------------------
(* Channel.as_dict, Channel.as_flat_dict *)

\* The categories in the order the dict literal lists them.
Categories == <<"meta", "data", "diagnostic", "statistics">>

as_dict(s) ==
    [category \in {"meta", "data", "diagnostic", "statistics"} |->
        CASE category = "meta" ->
                [id |-> s.identifier,
                 parent |-> s.parent,
                 lat |-> s.lat,
                 lon |-> s.lon,
                 name |-> s.name,
                 location_type |-> s.location_type]
          [] category = "data" ->
                ("pm_2.5" :> s.current_pm2_5) @@
                [temp_f |-> s.current_temp_f,
                 temp_c |-> s.current_temp_c,
                 humidity |-> s.current_humidity,
                 pressure |-> s.current_pressure,
                 p_0_3_um |-> s.current_p_0_3_um,
                 p_0_5_um |-> s.current_p_0_5_um,
                 p_1_0_um |-> s.current_p_1_0_um,
                 p_2_5_um |-> s.current_p_2_5_um,
                 p_5_0_um |-> s.current_p_5_0_um,
                 p_10_0_um |-> s.current_p_10_0_um,
                 pm1_0_cf_1 |-> s.current_pm1_0_cf_1,
                 pm2_5_cf_1 |-> s.current_pm2_5_cf_1,
                 pm10_0_cf_1 |-> s.current_pm10_0_cf_1,
                 pm1_0_atm |-> s.current_pm1_0_atm,
                 pm2_5_atm |-> s.current_pm2_5_atm,
                 pm10_0_atm |-> s.current_pm10_0_atm]
          [] category = "diagnostic" ->
                [last_seen |-> s.last_seen,
                 model |-> s.model,
                 adc |-> s.adc,
                 rssi |-> s.rssi,
                 hidden |-> s.hidden,
                 flagged |-> s.flagged,
                 downgraded |-> s.downgraded,
                 age |-> s.age,
                 brightness |-> s.brightness,
                 hardware |-> s.hardware,
                 version |-> s.version,
                 last_update_check |-> s.last_update_check,
                 created |-> s.created,
                 uptime |-> s.uptime,
                 is_owner |-> s.is_owner]
          [] category = "statistics" ->
                ("10min_avg" :> s.m10avg) @@ ("30min_avg" :> s.m30avg) @@
                ("1hour_avg" :> s.h1ravg) @@ ("6hour_avg" :> s.h6ravg) @@
                ("1day_avg" :> s.d1avg) @@ ("1week_avg" :> s.w1avg)]

\* out_d[prop] = nested[category][prop] for every prop of one category: a
\* key already in out_d is overwritten.
FlattenCategory(out_d, cat) ==
    [prop \in DOMAIN out_d \cup DOMAIN cat |->
        IF prop \in DOMAIN cat THEN cat[prop] ELSE out_d[prop]]

RECURSIVE FlattenFrom(_, _, _)
FlattenFrom(nested, i, out_d) ==
    IF i > Len(Categories) THEN out_d
    ELSE FlattenFrom(nested, i + 1, FlattenCategory(out_d, nested[Categories[i]]))

\* A flattening that stops before the last category.
as_flat_dict_drop_last(s) ==
    LET nested == as_dict(s)
    IN  FlattenCategory(FlattenCategory(FlattenCategory(EmptyMap,
            nested["meta"]), nested["data"]), nested["diagnostic"])

as_flat_dict(s) == FlattenFrom(as_dict(s), 1, EmptyMap)

----------------------------------------------------------------------------
(* Raw snapshots *)

\* A snapshot of a child sensor with every key the constructor reads.
WellFormed ==
    [ID |-> IntV(14634),
     ParentID |-> IntV(14633),
     Label |-> StrV("Sensor B"),
     DEVICE_LOCATIONTYPE |-> StrV("outside"),
     Lat |-> FloatV(37275),
     Lon |-> FloatV(-121964),
     PM2_5Value |-> StrV("1.5"),
     temp_f |-> StrV("72"),
     humidity |-> StrV("40"),
     pressure |-> StrV("1010.5"),
     p_0_3_um |-> StrV("12"),
     p_0_5_um |-> StrV("12"),
     p_1_0_um |-> StrV("1.5"),
     p_2_5_um |-> StrV("1.5"),
     p_5_0_um |-> StrV("0.0"),
     p_10_0_um |-> StrV("0.0"),
     pm1_0_cf_1 |-> StrV("1.5"),
     pm2_5_cf_1 |-> StrV("1.5"),
     pm10_0_cf_1 |-> StrV("1.5"),
     pm1_0_atm |-> StrV("1.5"),
     pm2_5_atm |-> StrV("1.5"),
     pm10_0_atm |-> StrV("1.5"),
     Stats |-> StrV("{v1..v6,lastModified,timeSinceModified}"),
     THINGSPEAK_PRIMARY_ID |-> StrV("248887"),
     THINGSPEAK_PRIMARY_ID_READ_KEY |-> StrV("PRIMARYKEY"),
     THINGSPEAK_SECONDARY_ID |-> StrV("248888"),
     THINGSPEAK_SECONDARY_ID_READ_KEY |-> StrV("SECONDARYKEY"),
     LastSeen |-> IntV(1600000000),
     Type |-> StrV("PMS5003+PMS5003+BME280"),
     Adc |-> StrV("0.01"),
     RSSI |-> StrV("-68"),
     Hidden |-> StrV("false"),
     Flag |-> IntV(1),
     A_H |-> StrV("true"),
     AGE |-> IntV(1),
     DEVICE_BRIGHTNESS |-> StrV("15"),
     DEVICE_HARDWAREDISCOVERED |-> StrV("2.0+BME280+PMSX003-B+PMSX003-A"),
     Version |-> StrV("6.01"),
     LastUpdateCheck |-> IntV(1599990000),
     Created |-> IntV(1500000000),
     Uptime |-> StrV("5210"),
     isOwner |-> IntV(1)]

RawKeys == DOMAIN WellFormed

Without(cd, S) == [k \in DOMAIN cd \ S |-> cd[k]]

\* At most this many keys are removed from a snapshot.
MaxMissing == 2

\* Values of `Stats` other than the well-formed one: a partial object, an
\* empty object, a JSON list, a text that is not JSON, and null.
StatsVariants ==
    {StrV("{v1,lastModified}"), StrV("{}"), StrV("[]"), StrV("not json"), None}

\* Values of `temp_f` other than the well-formed one: the freezing point, a
\* text that is not a number, a value that is not a scalar, and null.
TempVariants == {StrV("32"), StrV("n/a"), ListV(<<>>), None}

BaseSnapshots ==
    {WellFormed}
    \cup {[WellFormed EXCEPT !.Stats = v] : v \in StatsVariants}
    \cup {[WellFormed EXCEPT !.temp_f = v] : v \in TempVariants}

\* The sets of at most n raw keys.
RECURSIVE KeySetsUpTo(_)
KeySetsUpTo(n) ==
    IF n = 0 THEN {{}}
    ELSE LET smaller == KeySetsUpTo(n - 1)
         IN  smaller \cup {T \cup {k} : T \in smaller, k \in RawKeys}

Snapshots ==
    {Without(b, S) : b \in BaseSnapshots, S \in KeySetsUpTo(MaxMissing)}
    \cup {Without(WellFormed, RawKeys)}

----------------------------------------------------------------------------
(* Channel.get_thingspeak_url *)

\* timedelta(weeks=1) and one day, in seconds.
Week == 604800
Day == 86400

MinusWeek(d) == <<"datetime", d[2] - Week, d[3]>>

\* strftime("%Y-%m-%d 00:00:00"): the day of the datetime; the time of day
\* is replaced by the literal midnight.
Strftime(d) == StrV(<<d[2] \div Day, "00:00:00">>)

\* The defaults that get_thingspeak_url adds for keys the caller left out.
DefaultArgs(key) ==
    [api_key |-> key, offset |-> IntV(0), average |-> StrV(""), round |-> IntV(2)]

\* A URL: the base URL is the template filled with channel and dataformat,
\* followed by the encoded query arguments.
Url(channel, dataformat, args) ==
    [channel |-> channel, dataformat |-> dataformat, query |-> args]

\* Defaults that replace what the caller supplied.
MergeDefaultsDefaultsWin(args, defaults) ==
    [k \in DOMAIN args \cup DOMAIN defaults |->
        IF k \in DOMAIN defaults THEN defaults[k] ELSE args[k]]

\* `for key, val in default_args.items(): if key not in args: args[key] = val`
MergeDefaults(args, defaults) ==
    [k \in DOMAIN args \cup DOMAIN defaults |->
        IF k \in DOMAIN args THEN args[k] ELSE defaults[k]]

SetArg(args, key, val) ==
    [k \in DOMAIN args \cup {key} |-> IF k = key THEN val ELSE args[k]]

\* A builder that accepts any feed name and reads the secondary identifiers
\* for everything but 'primary'.
CheckFieldAcceptAll(field) == Ok(field)

\* The feed check at the head of get_thingspeak_url.
CheckField(field) ==
    IF field \notin {"primary", "secondary"}
    THEN RaiseMsg("ValueError", "Invalid ThingSpeak key", field)
    ELSE Ok(field)

\* get_thingspeak_url(thingspeak_field, start, end, thingspeak_args, dataformat)
\* on the object with attributes s. args is None or a mapping.
get_thingspeak_url(s, field, start, end, args, dataformat) ==
    LET checked == CheckField(field)
        channel == IF field = "primary" THEN s.tp_primary_channel
                   ELSE s.tp_secondary_channel
        key == IF field = "primary" THEN s.tp_primary_key ELSE s.tp_secondary_key
        copied == IF DOMAIN args # {} THEN args ELSE EmptyMap
        merged == MergeDefaults(copied, DefaultArgs(key))
        with_start == SetArg(merged, "start", Strftime(start))
        with_end == IF end # None THEN SetArg(with_start, "end", Strftime(end))
                    ELSE with_start
    IN  IF ~checked.ok THEN checked
        ELSE Ok(Url(channel, dataformat, with_end))

----------------------------------------------------------------------------
(* Tables: pd.read_csv, pd.concat, Channel.clean_data, pd.merge *)

\* The number of distinct timestamps in the tables the transport returns.
MaxTs == 3

\* The created_at text of a CSV row: a time and the zone name.
CsvTime(t) == StrV(<<t, "UTC">>)

RawRows == {[created_at |-> CsvTime(t)] : t \in 1..MaxTs}

\* What pd.read_csv can return: a table is its rows in order. One read
\* returns no row or one row; longer tables come from pd.concat.
CsvTables == {<<>>} \cup {<<row>> : row \in RawRows}

\* pd.concat(list of tables): ValueError when the list is empty.
RECURSIVE ConcatRows(_)
ConcatRows(tables) ==
    IF tables = <<>> THEN <<>> ELSE tables[1] \o ConcatRows(Tail(tables))

pd_concat(tables) ==
    IF tables = <<>> THEN RaiseMsg("ValueError", "No objects to concatenate", None)
    ELSE Ok(ConcatRows(tables))

\* pd.to_datetime(text, format='%Y-%m-%d %H:%M:%S %Z')
pd_to_datetime(text) == Datetime(text[2][1])

\* clean_data: the column mapping is selected by the feed and by the type of
\* the sensor, and created_at is parsed.
clean_data(s, field, data) ==
    [columns |->
        IF field = "primary"
        THEN IF s.type = StrV("parent") THEN "PARENT_PRIMARY_COLS" ELSE "CHILD_PRIMARY_COLS"
        ELSE IF s.type = StrV("parent") THEN "PARENT_SECONDARY_COLS" ELSE "CHILD_SECONDARY_COLS",
     rows |-> [i \in 1..Len(data) |-> [created_at |-> pd_to_datetime(data[i].created_at)]]]

\* The rows of `right` that join with row i of `left`, in order.
RECURSIVE JoinRow(_, _, _, _)
JoinRow(left, i, right, j) ==
    IF j > Len(right.rows) THEN <<>>
    ELSE (IF right.rows[j].created_at = left.rows[i].created_at
          THEN << [created_at |-> left.rows[i].created_at, x |-> i, y |-> j] >>
          ELSE <<>>) \o JoinRow(left, i, right, j + 1)

RECURSIVE JoinFrom(_, _, _)
JoinFrom(left, i, right) ==
    IF i > Len(left.rows) THEN <<>>
    ELSE JoinRow(left, i, right, 1) \o JoinFrom(left, i + 1, right)

\* A left join: a row of `left` without a partner is kept.
RECURSIVE LeftJoinFrom(_, _, _)
LeftJoinFrom(left, i, right) ==
    IF i > Len(left.rows) THEN <<>>
    ELSE (IF JoinRow(left, i, right, 1) = <<>>
          THEN << [created_at |-> left.rows[i].created_at, x |-> i, y |-> 0] >>
          ELSE JoinRow(left, i, right, 1)) \o LeftJoinFrom(left, i + 1, right)

pd_merge_left(left, right) ==
    [columns |-> <<left.columns, right.columns>>, rows |-> LeftJoinFrom(left, 1, right)]

\* pd.merge(left, right, how='inner', on='created_at')
pd_merge(left, right) ==
    [columns |-> <<left.columns, right.columns>>, rows |-> JoinFrom(left, 1, right)]

----------------------------------------------------------------------------
(* Inputs *)

\* The largest weeks_to_get a caller passes.
MaxWeeks == 2

\* The datetimes callers pass as start_date and last_date: one in the
\* middle of a day and one at midnight.
StartDates == {Datetime(1600000000), Datetime(1600041600)}

\* The datetimes callers pass as first_date.
FirstDates == {Datetime(1598000000)}

Fields == {"primary", "secondary", "tertiary"}

OptionKeys == {"offset", "average", "round", "start", "end", "api_key"}

\* The value a caller supplies for an option; each differs from the default
\* and from what the builder derives.
CallerValue(k) ==
    CASE k = "offset" -> IntV(8)
      [] k = "average" -> StrV("60")
      [] k = "round" -> IntV(0)
      [] k = "start" -> StrV(<<1, "00:00:00">>)
      [] k = "end" -> StrV(<<2, "00:00:00">>)
      [] k = "api_key" -> StrV("CALLERKEY")

\* The options mappings passed to the URL builder: None, or any set of
\* option keys with the caller's values.
UrlArgs == {None} \cup {[k \in K |-> CallerValue(k)] : K \in SUBSET OptionKeys}

\* The options mappings passed to the fetch operations.
FetchArgs == {None, [k \in {"average"} |-> CallerValue(k)]}

\* The snapshots of the objects the fetch operations run on: a child and a
\* parent sensor, and snapshots that lack all of the identity keys or only
\* the last one.
FetchSnapshots ==
    {WellFormed, Without(WellFormed, {"ParentID"}), Without(WellFormed, IdentityKeys),
     Without(WellFormed, {"THINGSPEAK_SECONDARY_ID_READ_KEY"})}

----------------------------------------------------------------------------
(* Construction and representation *)

NoObject == EmptyMap

\* No operation has been invoked.
Idle ==
    /\ op = "none"
    /\ thingspeak_field = "none"
    /\ thingspeak_args = None
    /\ first_date = None
    /\ last_date = None
    /\ weeks_arg = 0
    /\ start_arg = None
    /\ start_date = None
    /\ to_week = None
    /\ weeks_to_get = 0
    /\ range_left = 0
    /\ weekly_data = <<>>
    /\ primary = None
    /\ secondary = None
    /\ inflight = None
    /\ requests = <<>>
    /\ responses = <<>>
    /\ returned = None
    /\ exc = NoExc

InitSetup ==
    /\ channel_data \in Snapshots
    /\ self = NoObject
    /\ pc = "new"
    /\ Idle

\* Channel(channel_data): __init__ stores the snapshot and runs setup.
Construct ==
    /\ pc = "new"
    /\ LET r == Setup(channel_data)
       IN  IF r.ok
           THEN /\ self' = r.value
                /\ pc' = "ready"
                /\ exc' = NoExc
           ELSE /\ self' = NoObject
                /\ pc' = "raised"
                /\ exc' = r.exc
    /\ UNCHANGED <<channel_data, returned, callVars, loopVars, feedVars, netVars>>

AsDict ==
    /\ pc = "ready"
    /\ op' = "as_dict"
    /\ returned' = as_dict(self)
    /\ UNCHANGED <<objVars, pc, exc, thingspeak_field, thingspeak_args, first_date,
                   last_date, weeks_arg, start_arg, loopVars, feedVars, netVars>>

AsFlatDict ==
    /\ pc = "ready"
    /\ op' = "as_flat_dict"
    /\ returned' = as_flat_dict(self)
    /\ UNCHANGED <<objVars, pc, exc, thingspeak_field, thingspeak_args, first_date,
                   last_date, weeks_arg, start_arg, loopVars, feedVars, netVars>>

NextSetup == Construct \/ AsDict \/ AsFlatDict

SpecSetup == InitSetup /\ [][NextSetup]_vars

----------------------------------------------------------------------------
(* The historical operations *)

Init ==
    /\ channel_data \in FetchSnapshots
    /\ self = Setup(channel_data).value
    /\ pc = "ready"
    /\ Idle

\* The caller builds a URL: the builder returns or raises at once.
GetThingspeakUrl ==
    /\ pc = "ready"
    /\ \E field \in Fields, start \in StartDates, end \in StartDates \cup {None},
          args \in UrlArgs, dataformat \in {"csv", "json"} :
          LET r == get_thingspeak_url(self, field, start, end, args, dataformat)
          IN  /\ op' = "get_thingspeak_url"
              /\ thingspeak_field' = field
              /\ thingspeak_args' = args
              /\ first_date' = start
              /\ last_date' = end
              /\ pc' = IF r.ok THEN "done" ELSE "raised"
              /\ returned' = r.value
              /\ exc' = r.exc
    /\ UNCHANGED <<objVars, weeks_arg, start_arg, loopVars, feedVars, netVars>>

GetHistoricalBetween ==
    /\ pc = "ready"
    /\ \E field \in Fields, first \in FirstDates, last \in StartDates, args \in FetchArgs :
          /\ op' = "get_historical_between"
          /\ thingspeak_field' = field
          /\ thingspeak_args' = args
          /\ first_date' = first
          /\ last_date' = last
    /\ pc' = "between"
    /\ UNCHANGED <<objVars, exc, returned, weeks_arg, start_arg, loopVars, feedVars, netVars>>

GetAllHistoricalBetween ==
    /\ pc = "ready"
    /\ \E first \in FirstDates, last \in StartDates, args \in FetchArgs :
          /\ op' = "get_all_historical_between"
          /\ thingspeak_field' = "primary"
          /\ thingspeak_args' = args
          /\ first_date' = first
          /\ last_date' = last
    /\ pc' = "between"
    /\ UNCHANGED <<objVars, exc, returned, weeks_arg, start_arg, loopVars, feedVars, netVars>>

\* Entry of get_historical: to_week = start_date - timedelta(weeks=1) and an
\* empty weekly_data.
EnterHistorical(field, n, sd) ==
    /\ thingspeak_field' = field
    /\ start_date' = sd
    /\ to_week' = MinusWeek(sd)
    /\ weeks_to_get' = n
    /\ range_left' = 0
    /\ weekly_data' = <<>>
    /\ pc' = "while"

GetHistorical ==
    /\ pc = "ready"
    /\ \E field \in Fields, n \in 0..MaxWeeks, sd \in StartDates, args \in FetchArgs :
          /\ op' = "get_historical"
          /\ thingspeak_args' = args
          /\ weeks_arg' = n
          /\ start_arg' = sd
          /\ EnterHistorical(field, n, sd)
    /\ UNCHANGED <<objVars, exc, returned, first_date, last_date, feedVars, netVars>>

GetAllHistorical ==
    /\ pc = "ready"
    /\ \E n \in 0..MaxWeeks, sd \in StartDates, args \in FetchArgs :
          /\ op' = "get_all_historical"
          /\ thingspeak_args' = args
          /\ weeks_arg' = n
          /\ start_arg' = sd
          /\ EnterHistorical("primary", n, sd)
    /\ UNCHANGED <<objVars, exc, returned, first_date, last_date, feedVars, netVars>>

\* pd.read_csv(url) is called: the URL goes to the transport.
IssueRead(url) ==
    /\ inflight' = url
    /\ requests' = Append(requests, url)
    /\ responses' = responses
    /\ pc' = "reading"
    /\ exc' = NoExc

\* An exception leaves the operation.
Abort(e) ==
    /\ pc' = "raised"
    /\ exc' = e
    /\ returned' = None

\* get_historical_between: build the URL, then read it.
BetweenRequest ==
    /\ pc = "between"
    /\ LET r == get_thingspeak_url(self, thingspeak_field, first_date, last_date,
                                   thingspeak_args, "csv")
       IN  IF r.ok
           THEN IssueRead(r.value) /\ UNCHANGED returned
           ELSE Abort(r.exc) /\ UNCHANGED netVars
    /\ UNCHANGED <<objVars, callVars, loopVars, feedVars>>

\* `while weeks_to_get > 0`: enter `for _ in range(weeks_to_get)`, or leave
\* the loop.
WhileTest ==
    /\ pc = "while"
    /\ IF weeks_to_get > 0
       THEN range_left' = weeks_to_get /\ pc' = "for"
       ELSE range_left' = range_left /\ pc' = "concat"
    /\ UNCHANGED <<objVars, exc, returned, callVars, start_date, to_week, weeks_to_get,
                   weekly_data, feedVars, netVars>>

\* The range of the for loop is exhausted: back to the while test.
ForExhausted ==
    /\ pc = "for"
    /\ range_left = 0
    /\ pc' = "while"
    /\ UNCHANGED <<objVars, exc, returned, callVars, loopVars, feedVars, netVars>>

\* An iteration whose start_date is the cursor itself, moved in place: both
\* boundaries of the window are the moved cursor.
LoopRequestAliased ==
    /\ pc = "for"
    /\ range_left > 0
    /\ start_date' = MinusWeek(to_week)
    /\ to_week' = MinusWeek(to_week)
    /\ LET r == get_thingspeak_url(self, thingspeak_field, to_week', start_date',
                                   thingspeak_args, "csv")
       IN  IF r.ok
           THEN IssueRead(r.value) /\ UNCHANGED returned
           ELSE Abort(r.exc) /\ UNCHANGED netVars
    /\ UNCHANGED <<objVars, callVars, weeks_to_get, range_left, weekly_data, feedVars>>

\* One iteration of the for loop up to the read: the cursor moves back one
\* week and the URL of the window [to_week, start_date] is built and read.
LoopRequest ==
    /\ pc = "for"
    /\ range_left > 0
    /\ start_date' = to_week
    /\ to_week' = MinusWeek(to_week)
    /\ LET r == get_thingspeak_url(self, thingspeak_field, to_week', start_date',
                                   thingspeak_args, "csv")
       IN  IF r.ok
           THEN IssueRead(r.value) /\ UNCHANGED returned
           ELSE Abort(r.exc) /\ UNCHANGED netVars
    /\ UNCHANGED <<objVars, callVars, weeks_to_get, range_left, weekly_data, feedVars>>

\* A get_all_historical that starts the secondary retrieval from the cursor
\* the primary retrieval left behind instead of from its own start_date.
ReturnSecondaryFromCursor(table) ==
    IF op \in {"get_historical_between", "get_historical"}
    THEN /\ pc' = "done"
         /\ returned' = table
         /\ UNCHANGED <<thingspeak_field, loopVars, feedVars>>
    ELSE IF thingspeak_field = "primary"
    THEN /\ primary' = table
         /\ UNCHANGED <<secondary, returned>>
         /\ IF op = "get_all_historical"
            THEN EnterHistorical("secondary", weeks_arg, start_date)
            ELSE /\ thingspeak_field' = "secondary"
                 /\ pc' = "between"
                 /\ UNCHANGED loopVars
    ELSE /\ secondary' = table
         /\ pc' = "merge"
         /\ UNCHANGED <<primary, returned, thingspeak_field, loopVars>>

\* A retrieval hands its table to its caller: the operation returns it, or
\* get_all_historical* keeps it and goes on with the secondary feed or the
\* merge.
Return(table) ==
    IF op \in {"get_historical_between", "get_historical"}
    THEN /\ pc' = "done"
         /\ returned' = table
         /\ UNCHANGED <<thingspeak_field, loopVars, feedVars>>
    ELSE IF thingspeak_field = "primary"
    THEN /\ primary' = table
         /\ UNCHANGED <<secondary, returned>>
         /\ IF op = "get_all_historical"
            THEN EnterHistorical("secondary", weeks_arg, start_arg)
            ELSE /\ thingspeak_field' = "secondary"
                 /\ pc' = "between"
                 /\ UNCHANGED loopVars
    ELSE /\ secondary' = table
         /\ pc' = "merge"
         /\ UNCHANGED <<primary, returned, thingspeak_field, loopVars>>

\* A read whose failure is turned into an empty table.
ReadFailsSwallowed ==
    /\ pc = "reading"
    /\ inflight' = None
    /\ responses' = Append(responses, "error")
    /\ IF op \in {"get_historical", "get_all_historical"}
       THEN /\ weekly_data' = Append(weekly_data, <<>>)
            /\ weeks_to_get' = weeks_to_get - 1
            /\ range_left' = range_left - 1
            /\ pc' = "for"
            /\ UNCHANGED <<returned, thingspeak_field, start_date, to_week, feedVars>>
       ELSE Return(clean_data(self, thingspeak_field, <<>>))
    /\ UNCHANGED <<objVars, exc, op, thingspeak_args, first_date, last_date,
                   weeks_arg, start_arg, requests>>

\* pd.read_csv raises (network error, malformed CSV): nothing catches it.
ReadFails ==
    /\ pc = "reading"
    /\ inflight' = None
    /\ responses' = Append(responses, "error")
    /\ Abort(<<"TransportError">>)
    /\ UNCHANGED <<objVars, callVars, loopVars, feedVars, requests>>

\* pd.read_csv returns a table. In the loop it is appended to weekly_data
\* and weeks_to_get is decremented; get_historical_between cleans and
\* returns it.
ReadReturns ==
    /\ pc = "reading"
    /\ inflight' = None
    /\ responses' = Append(responses, "ok")
    /\ \E table \in CsvTables :
          IF op \in {"get_historical", "get_all_historical"}
          THEN /\ weekly_data' = Append(weekly_data, table)
               /\ weeks_to_get' = weeks_to_get - 1
               /\ range_left' = range_left - 1
               /\ pc' = "for"
               /\ UNCHANGED <<returned, thingspeak_field, start_date, to_week, feedVars>>
          ELSE Return(clean_data(self, thingspeak_field, table))
    /\ UNCHANGED <<objVars, exc, op, thingspeak_args, first_date, last_date,
                   weeks_arg, start_arg, requests>>

\* After the loop: pd.concat(weekly_data), then clean_data on the whole.
Concat ==
    /\ pc = "concat"
    /\ LET c == pd_concat(weekly_data)
       IN  IF c.ok
           THEN Return(clean_data(self, thingspeak_field, c.value)) /\ UNCHANGED exc
           ELSE Abort(c.exc) /\ UNCHANGED <<thingspeak_field, loopVars, feedVars>>
    /\ UNCHANGED <<objVars, op, thingspeak_args, first_date, last_date,
                   weeks_arg, start_arg, netVars>>

\* get_all_historical*: the inner join of the two tables is returned.
Merge ==
    /\ pc = "merge"
    /\ returned' = pd_merge(primary, secondary)
    /\ pc' = "done"
    /\ UNCHANGED <<objVars, exc, callVars, loopVars, feedVars, netVars>>

Next ==
    \/ GetThingspeakUrl
    \/ GetHistoricalBetween
    \/ GetAllHistoricalBetween
    \/ GetHistorical
    \/ GetAllHistorical
    \/ BetweenRequest
    \/ WhileTest
    \/ ForExhausted
    \/ LoopRequest
    \/ ReadFails
    \/ ReadReturns
    \/ Concat
    \/ Merge

Spec == Init /\ [][Next]_vars

----------------------------------------------------------------------------
(* Properties of the fetch operations *)

\* d minus i weeks.
MinusWeeks(d, i) == <<"datetime", d[2] - i * Week, d[3]>>

HistoricalOps ==
    {"get_thingspeak_url", "get_historical_between", "get_historical",
     "get_all_historical", "get_all_historical_between"}

DualOps == {"get_all_historical", "get_all_historical_between"}

\* The object was built from a snapshot that lacks the identity keys.
IdsAbsent == IdentityKeys \cap DOMAIN channel_data = {}

\* C1: get_historical(n, field, D) on an object with its feed identifiers
\* issues exactly n reads, and the i-th read is for the window
\* [D - i weeks, D - (i-1) weeks].
C1_WindowsFromStartDate ==
    (op = "get_historical" /\ IdentityKeys \subseteq DOMAIN channel_data) =>
        /\ \A i \in 1..Len(requests) :
              /\ requests[i].query["start"] = Strftime(MinusWeeks(start_arg, i))
              /\ requests[i].query["end"] = Strftime(MinusWeeks(start_arg, i - 1))
        /\ (pc = "done" => Len(requests) = weeks_arg)

\* C2: on an object without feed identifiers every historical query fails
\* before the transport is called: no request is made and nothing is
\* returned.
C2_NoTransportWithoutIdentity ==
    (IdsAbsent /\ op \in HistoricalOps) =>
        /\ Len(requests) = 0
        /\ pc # "done"

\* C3: a failed read is the last request of the operation, the operation
\* has ended with that error, and no table is returned.
C3_FailedReadAborts ==
    \A i \in 1..Len(responses) :
        responses[i] = "error" =>
            /\ i = Len(requests)
            /\ pc = "raised"
            /\ ExcName(exc) = "TransportError"
            /\ inflight = None
            /\ returned = None

\* A read of a later window, or of the secondary feed, has failed.
C3_Witness ==
    /\ Len(responses) >= 2
    /\ responses[Len(responses)] = "error"
    /\ pc = "raised"
    /\ op \in DualOps
    /\ thingspeak_field = "secondary"

TimesOf(table) == {table.rows[i].created_at : i \in 1..Len(table.rows)}

\* C4: the table a dual-feed operation returns has a row for a timestamp
\* exactly when the timestamp is in the primary and in the secondary table.
C4_InnerJoin ==
    (op \in DualOps /\ pc = "done") =>
        TimesOf(returned) = TimesOf(primary) \cap TimesOf(secondary)

\* The feeds share a timestamp and each has one the other lacks.
C4_Witness ==
    /\ op \in DualOps
    /\ pc = "done"
    /\ TimesOf(primary) \cap TimesOf(secondary) # {}
    /\ TimesOf(primary) \ TimesOf(secondary) # {}
    /\ TimesOf(secondary) \ TimesOf(primary) # {}

\* offset, average and round of a built URL: the caller's value when the
\* options mapping has the key, the default otherwise.
CallerOrDefault(k) ==
    returned.query[k] =
        IF k \in DOMAIN thingspeak_args THEN thingspeak_args[k]
        ELSE DefaultArgs(None)[k]

\* C5 as stated: offset, average and round are the caller's or the default,
\* and start and end of the URL are always the builder's: start is the
\* formatted start argument, end is the formatted end argument, and there is
\* no end without an end argument.
C5_StartEndNeverFromOptions ==
    (op = "get_thingspeak_url" /\ pc = "done") =>
        /\ \A k \in {"offset", "average", "round"} : CallerOrDefault(k)
        /\ returned.query["start"] = Strftime(first_date)
        /\ IF last_date # None
           THEN returned.query["end"] = Strftime(last_date)
           ELSE "end" \notin DOMAIN returned.query

\* C5 amended: offset, average and round are the caller's or the default;
\* start is always the formatted start argument; end is the formatted end
\* argument when one is given, and without an end argument the URL has an
\* end exactly when the options mapping has one, with the caller's value.
C5_EndFromOptionsWithoutEndArgument ==
    (op = "get_thingspeak_url" /\ pc = "done") =>
        /\ \A k \in {"offset", "average", "round"} : CallerOrDefault(k)
        /\ returned.query["start"] = Strftime(first_date)
        /\ IF last_date # None
           THEN returned.query["end"] = Strftime(last_date)
           ELSE IF "end" \in DOMAIN thingspeak_args
                THEN returned.query["end"] = thingspeak_args["end"]
                ELSE "end" \notin DOMAIN returned.query

\* The options mapping has start, end and offset but no round, and no end
\* argument is given.
C5_Witness ==
    /\ op = "get_thingspeak_url"
    /\ pc = "done"
    /\ last_date = None
    /\ {"start", "end", "offset"} \subseteq DOMAIN thingspeak_args
    /\ "round" \notin DOMAIN thingspeak_args

\* C6: with a feed that is neither primary nor secondary the URL builder
\* raises a ValueError that carries the feed name; nothing was requested
\* from the transport and nothing is returned, whatever the identifiers.
C6_InvalidFeedRaises ==
    (op \in HistoricalOps /\ thingspeak_field \notin {"primary", "secondary"}) =>
        /\ requests = <<>>
        /\ returned = None
        /\ pc # "done"
        /\ ExcName(exc) # "TransportError"
        /\ (op = "get_thingspeak_url" =>
                /\ pc = "raised"
                /\ exc = <<"ValueError", "Invalid ThingSpeak key", thingspeak_field>>)

\* The builder was called with feed tertiary on an object without
\* identifiers.
C6_Witness ==
    /\ op = "get_thingspeak_url"
    /\ thingspeak_field = "tertiary"
    /\ pc = "raised"
    /\ IdsAbsent

\* The window of a request: the start and end parameters of its URL.
WindowOf(url) == <<url.query["start"], url.query["end"]>>

\* C11: in get_all_historical(n, D) a request is issued only when every
\* earlier one has been answered; the first n requests are the primary
\* feed's and are answered before the first request of the secondary feed;
\* request n + i is for the window of request i; and the join is made only
\* when all 2n requests have been answered without error.
C11_DualFetchSequential ==
    op = "get_all_historical" =>
        /\ Len(requests) = Len(responses) + (IF inflight # None THEN 1 ELSE 0)
        /\ (inflight # None => pc = "reading" /\ inflight = requests[Len(requests)])
        /\ Len(requests) <= 2 * weeks_arg
        /\ (thingspeak_field = "primary" => Len(requests) <= weeks_arg)
        /\ (thingspeak_field = "secondary" =>
                /\ Len(requests) >= weeks_arg
                /\ \A i \in 1..weeks_arg : responses[i] = "ok")
        /\ \A i \in 1..Len(requests) :
              /\ requests[i].channel =
                    IF i <= weeks_arg THEN self.tp_primary_channel
                    ELSE self.tp_secondary_channel
              /\ (i > weeks_arg =>
                    WindowOf(requests[i]) = WindowOf(requests[i - weeks_arg]))
        /\ ((pc \in {"merge", "done"} \/ returned # None) =>
                /\ Len(responses) = 2 * weeks_arg
                /\ weeks_arg >= 1
                /\ \A i \in 1..Len(responses) : responses[i] = "ok"
                /\ inflight = None)

\* get_all_historical has returned the join of two feeds of two windows
\* each, on an object with its feed identifiers.
C11_Witness ==
    /\ op = "get_all_historical"
    /\ pc = "done"
    /\ weeks_arg = 2
    /\ Len(requests) = 4
    /\ IdentityKeys \subseteq DOMAIN channel_data
    /\ returned.rows # <<>>

\* The day of a formatted date.
DayOf(text) == text[2][1]

\* The requests that open a retrieval: the first one, and in
\* get_all_historical the first one of the secondary feed.
OpensRetrieval(i) == i = 1 \/ (op = "get_all_historical" /\ i = weeks_arg + 1)

\* The windows requested so far by the chunked fetch are one week long with
\* start before end, each window after the first of its retrieval ends
\* where the one before it starts, and the window being read is the one
\* between the cursor to_week and start_date, which are one week apart.
WindowsContiguous ==
    op \in {"get_historical", "get_all_historical"} =>
        /\ \A i \in 1..Len(requests) :
              /\ DayOf(requests[i].query["end"]) - DayOf(requests[i].query["start"])
                    = Week \div Day
              /\ (~OpensRetrieval(i) =>
                    requests[i].query["end"] = requests[i - 1].query["start"])
        /\ (pc = "reading" =>
                /\ WindowOf(requests[Len(requests)])
                      = <<Strftime(to_week), Strftime(start_date)>>
                /\ start_date[2] - to_week[2] = Week)

\* C12: at every step of the chunked fetch the windows requested so far are
\* contiguous one-week windows walking backward, and a step, the advance of
\* the cursor included, leaves every window already requested as it was.
C12_WindowsContiguousAndKept ==
    [][/\ WindowsContiguous'
       /\ Len(requests') >= Len(requests)
       /\ \A i \in 1..Len(requests) : requests'[i] = requests[i]]_vars

\* get_historical has requested its second window: the cursor has advanced
\* past a window that was already requested.
C12_Witness ==
    /\ op = "get_historical"
    /\ pc = "reading"
    /\ Len(requests) = 2
    /\ weeks_arg = 2

----------------------------------------------------------------------------
(* Properties of construction and representation *)

\* The attribute that setup derives from each raw key.
FieldOf ==
    [ID |-> "identifier",
     ParentID |-> "parent",
     Label |-> "name",
     DEVICE_LOCATIONTYPE |-> "location_type",
     Lat |-> "lat",
     Lon |-> "lon",
     PM2_5Value |-> "current_pm2_5",
     temp_f |-> "current_temp_f",
     humidity |-> "current_humidity",
     pressure |-> "current_pressure",
     p_0_3_um |-> "current_p_0_3_um",
     p_0_5_um |-> "current_p_0_5_um",
     p_1_0_um |-> "current_p_1_0_um",
     p_2_5_um |-> "current_p_2_5_um",
     p_5_0_um |-> "current_p_5_0_um",
     p_10_0_um |-> "current_p_10_0_um",
     pm1_0_cf_1 |-> "current_pm1_0_cf_1",
     pm2_5_cf_1 |-> "current_pm2_5_cf_1",
     pm10_0_cf_1 |-> "current_pm10_0_cf_1",
     pm1_0_atm |-> "current_pm1_0_atm",
     pm2_5_atm |-> "current_pm2_5_atm",
     pm10_0_atm |-> "current_pm10_0_atm",
     Stats |-> "pm2_5stats",
     THINGSPEAK_PRIMARY_ID |-> "tp_primary_channel",
     THINGSPEAK_PRIMARY_ID_READ_KEY |-> "tp_primary_key",
     THINGSPEAK_SECONDARY_ID |-> "tp_secondary_channel",
     THINGSPEAK_SECONDARY_ID_READ_KEY |-> "tp_secondary_key",
     LastSeen |-> "last_seen",
     Type |-> "model",
     Adc |-> "adc",
     RSSI |-> "rssi",
     Hidden |-> "hidden",
     Flag |-> "flagged",
     A_H |-> "downgraded",
     AGE |-> "age",
     DEVICE_BRIGHTNESS |-> "brightness",
     DEVICE_HARDWAREDISCOVERED |-> "hardware",
     Version |-> "version",
     LastUpdateCheck |-> "last_update_check",
     Created |-> "created",
     Uptime |-> "uptime",
     isOwner |-> "is_owner"]

\* The raw keys whose attribute is a flag computed by a comparison.
FlagKeys == {"Hidden", "Flag", "A_H", "isOwner"}

\* The snapshot is the well-formed one with some keys removed.
RemovalOnly == \A k \in DOMAIN channel_data : channel_data[k] = WellFormed[k]

Removed == RawKeys \ DOMAIN channel_data

\* C7 as stated: construction from a well-formed snapshot with keys removed
\* does not raise, and the attribute of every removed key is None.
C7_RemovedKeyIsNone ==
    (RemovalOnly /\ pc # "new") =>
        /\ pc = "ready"
        /\ \A k \in Removed : self[FieldOf[k]] = None

\* C7 amended: construction from a well-formed snapshot with keys removed
\* does not raise; the attribute of every removed key is None, except the
\* four flags, which take the value of their comparison: hidden is True,
\* flagged, downgraded and is_owner are False.
C7_RemovedKeyIsNoneOrFlagDefault ==
    (RemovalOnly /\ pc # "new") =>
        /\ pc = "ready"
        /\ \A k \in Removed :
              self[FieldOf[k]] = IF k \in FlagKeys THEN BoolV(k = "Hidden") ELSE None

\* Two keys are removed, a flag and a plain one, and the object is built.
C7_Witness ==
    /\ pc = "ready"
    /\ RemovalOnly
    /\ Removed = {"Hidden", "Lat"}

StatAttrs ==
    {"pm2_5stats", "m10avg", "m30avg", "h1ravg", "h6ravg", "d1avg", "w1avg",
     "last_modified_stats", "last2_modified"}

\* C8: when `Stats` is absent or does not parse, construction succeeds and
\* every attribute of the statistics block is None.
C8_StatsAtomic ==
    (pc # "new" /\ ("Stats" \notin DOMAIN channel_data
                    \/ ~JsonLoads(channel_data["Stats"]).ok)) =>
        /\ pc = "ready"
        /\ \A a \in StatAttrs : self[a] = None

\* C9: when one of the four identity keys is missing, the four identity
\* attributes and the two feed handles are all None.
C9_IdentityAllOrNone ==
    (pc = "ready" /\ ~(IdentityKeys \subseteq DOMAIN channel_data)) =>
        \A a \in IdAttrs : self[a] = None

\* Only the last identity key is missing: the try block has assigned three
\* attributes when the KeyError is raised.
C9_Witness ==
    /\ pc = "ready"
    /\ IdentityKeys \ DOMAIN channel_data = {"THINGSPEAK_SECONDARY_ID_READ_KEY"}

CategoryNames == {Categories[i] : i \in 1..Len(Categories)}

\* C10: the flat mapping has exactly the keys of the four categories of the
\* nested mapping, each with the value it has in its category, and no key
\* is in two categories.
C10_FlatHasNestedKeysAndValues ==
    op = "as_flat_dict" =>
        LET nested == as_dict(self)
        IN  /\ DOMAIN returned = UNION {DOMAIN nested[c] : c \in CategoryNames}
            /\ \A c \in CategoryNames : \A k \in DOMAIN nested[c] :
                  returned[k] = nested[c][k]
            /\ \A c1, c2 \in CategoryNames :
                  c1 # c2 => DOMAIN nested[c1] \cap DOMAIN nested[c2] = {}

\* The flat mapping of an object built from the whole snapshot.
C10_Witness ==
    /\ op = "as_flat_dict"
    /\ channel_data = WellFormed

====
